---- MODULE Spec2Model ----
(***************************************************************************)
(* A model of src/parallel/reader.cc: class ParallelFileReader (the        *)
(* constructor, read(), readChunk(), verify(), the destructor) and main(). *)
(*                                                                         *)
(* Sizes are scaled down: the file holds at most MaxFileSize bytes, a byte *)
(* is 0 or 1, and block_size (4096 in the source, a field that is never    *)
(* assigned after its initializer) ranges over 2..MaxBlock.  All the       *)
(* arithmetic of the source is kept as written, size_t modulo SizeMod.     *)
(*                                                                         *)
(* The environment may fail every allocation, open, seek and read; the     *)
(* creation of a thread is taken to succeed.                               *)
(***************************************************************************)
EXTENDS Integers, Sequences, FiniteSets, TLC

\* ------------------------------------------------------------------ bounds
MaxFileSize == 3
MaxThreads == 2
MaxBlock == 3
\* storage faults (failed or short operations) injected into one read() call
MaxFaults == 1

\* size_t is modelled modulo SizeMod (2^64 in the build), a power of two far above
\* every size here
SizeMod == 65536

\* the chunk sizes a caller may pass
MaxChunk == MaxBlock + 1
\* bytes per KB (1024 in the source, scaled) and main()'s default chunk size
KB == 2
MaxChunkKB == 1
DefaultChunk == MaxChunkKB * KB
Byte == {0, 1}
BlockSizes == 2..MaxBlock
\* an indeterminate byte: memory that was allocated and never written
Uninit == -1
\* the null pointer of `buffer`
NullPtr == << >>

\* ----------------------------------------------------------------- helpers
Min(a, b) == IF a < b THEN a ELSE b

\* a value of type size_t: arithmetic wraps modulo SizeMod
ToSizeT(x) == x % SizeMod

\* ((x + b - 1) / b) * b in size_t: the sum wraps
RoundUp(x, b) == (ToSizeT(x + b - 1) \div b) * b

Range(lo, len) == lo .. (lo + len - 1)

\* the largest number of loop iterations of one worker that is counted
IterCap == MaxFileSize + 1

AllFiles == UNION {[1..n -> Byte] : n \in 0..MaxFileSize}

\* ------------------------------------------------------------------- state
VARIABLES
    file,            \* the bytes of the file on storage
    fileExists,      \* whether stat() finds the file
    caller,          \* "main": the program runs main(); "api": a caller uses the class
    pc,              \* where the calling thread is
    exitCode,        \* main()'s return value (-1 while it has not returned)
    exitCause,       \* why main() returns: "usage", "parse", "ctor", "read", "verify"
                     \* (an exception of that step) or "done" ("none": not known yet)
    file_size, buffer, num_threads, read_chunk_size, block_size, use_odirect,
    threw,           \* the last constructor or read() call threw
    divByZero,       \* read() divided by num_threads = 0
    mpc,             \* zero-fill thread i: "run" or "done"
    memset_offset,   \* zero-fill thread i: captured current_memset_offset
    memset_size,     \* zero-fill thread i: captured current_chunk_size
    mwrote,          \* zero-fill thread i: the buffer offsets it wrote
    wpc,             \* worker i: "start", "loop" or "done"
    section_start, section_size,   \* worker i: the arguments of readChunk
    bytes_done,      \* worker i: bytes_processed / bytes_read
    current_offset,  \* worker i: current_offset
    temp_buffer,     \* worker i: the scratch buffer (direct mode)
    fault,           \* worker i: the storage fault it met ("none": none; "einval": its
                     \* own misaligned direct read was refused)
    wrote,           \* worker i: the buffer offsets it wrote
    ioLog,           \* worker i: the <<offset, length>> of every seek + read it issued
    scratchRead,     \* worker i: the scratch offsets memcpy read
    copyLog,         \* worker i: one record per read that returned a count: the length
                     \* asked for, the count returned, offset_in_block, what remained
                     \* of the section and the number of bytes copied
    iterations,      \* worker i: the loop iterations it began (counted up to IterCap)
    resources,       \* worker i: how often it opened and closed a file handle and
                     \* allocated and freed a scratch buffer
    released,        \* the deallocator ~ParallelFileReader() used ("none": not run)
    verifyResult,    \* how the verify() called since the last read() began ended:
                     \* "true", "false", "threw", "killed" ("none": not called)
    verifyOpen,      \* whether that verify() opened the file
    verifyGcount     \* file.gcount() of that verify() (-1 when it did not read)

memsetVars == <<mpc, memset_offset, memset_size, mwrote>>
workerVars == <<wpc, section_start, section_size, bytes_done, current_offset,
                temp_buffer, fault, wrote, ioLog, scratchRead, copyLog, iterations,
                resources>>
verifyVars == <<verifyResult, verifyOpen, verifyGcount>>
envVars == <<file, fileExists, block_size>>
configVars == <<file_size, num_threads, read_chunk_size, use_odirect>>

vars == <<file, fileExists, caller, pc, exitCode, exitCause, file_size, buffer,
          num_threads, read_chunk_size, block_size, use_odirect, threw, divByZero,
          memsetVars, workerVars, verifyVars, released>>

Threads == 0 .. (num_threads - 1)
NoThreads == [i \in {} |-> 0]

\* what a worker holds when it starts: no handle, no scratch buffer
NoResources == [opens |-> 0, closes |-> 0, allocs |-> 0, frees |-> 0]

\* open(filename, flags) returned a handle
OpenFd(r) == [r EXCEPT !.opens = @ + 1]

\* close(fd)
CloseFd(r) == [r EXCEPT !.closes = @ + 1]

\* posix_memalign(&temp_buffer, block_size, read_chunk_size) returned 0
AllocScratch(r) == [r EXCEPT !.allocs = @ + 1]

\* free(temp_buffer)
FreeScratch(r) == [r EXCEPT !.frees = @ + 1]

\* mutant: the return after a failed scratch allocation leaves the handle open
AllocFailedNoClose(r) == r

\* the return after a failed scratch allocation: close(fd)
AllocFailed(r) == CloseFd(r)

\* what follows the loop: free(temp_buffer) in direct mode, then close(fd)
LeaveLoop(r) == CloseFd(IF use_odirect THEN FreeScratch(r) ELSE r)

\* whether the storage may still fail the next operation of this read() call
MayFail == Cardinality({i \in DOMAIN fault : fault[i] \notin {"none", "einval"}}) < MaxFaults

Init ==
    /\ file \in AllFiles
    /\ fileExists \in BOOLEAN
    /\ (~fileExists => file = << >>)
    /\ block_size \in BlockSizes
    /\ caller = "none"
    /\ pc = "start"
    /\ exitCode = -1
    /\ exitCause = "none"
    /\ file_size = 0
    /\ buffer = NullPtr
    /\ num_threads = 0
    /\ read_chunk_size = 0
    /\ use_odirect = FALSE
    /\ threw = FALSE
    /\ divByZero = FALSE
    /\ mpc = NoThreads /\ memset_offset = NoThreads /\ memset_size = NoThreads
    /\ mwrote = NoThreads
    /\ wpc = NoThreads /\ section_start = NoThreads /\ section_size = NoThreads
    /\ bytes_done = NoThreads /\ current_offset = NoThreads
    /\ temp_buffer = NoThreads /\ fault = NoThreads /\ wrote = NoThreads
    /\ ioLog = NoThreads /\ scratchRead = NoThreads
    /\ copyLog = NoThreads /\ iterations = NoThreads /\ resources = NoThreads
    /\ released = "none"
    /\ verifyResult = "none" /\ verifyOpen = FALSE /\ verifyGcount = -1

\* ------------------------------------------------------------ construction
\* mutant: the result of stat() is not looked at, st_size is returned as it is
getFileSizeStatIgnored == IF fileExists THEN Len(file) ELSE 1

\* getFileSize(filename): st_size, or 0 when stat() fails
getFileSize == IF fileExists THEN Len(file) ELSE 0

\* the constructor's rounding of read_chunk_size
CtorChunk(chunk_size, odirect) ==
    IF odirect /\ chunk_size % block_size # 0
    THEN RoundUp(chunk_size, block_size)
    ELSE chunk_size

\* ParallelFileReader(fname, threads, chunk_size, odirect)
Ctor(threads, chunk_size, odirect) ==
    /\ num_threads' = threads
    /\ use_odirect' = odirect
    /\ read_chunk_size' = CtorChunk(chunk_size, odirect)
    /\ buffer' = NullPtr
    /\ file_size' = getFileSize
    /\ threw' = (getFileSize = 0)

\* mutant: the catch handler falls through to the return at the end of main
MainReturnsZeroAfterCatch(cause) == IF cause = "usage" THEN 1 ELSE 0

\* main()'s return value: 1 after the usage text and in the catch handler, 0 at its end
MainReturns(cause) == IF cause = "done" THEN 0 ELSE 1

\* main()'s coercion of num_threads
MainThreads(n) == IF n = 0 THEN 1 ELSE n

\* main()'s coercion of read_chunk_size
MainChunk(c) == IF c = 0 THEN DefaultChunk ELSE c

\* main(), up to the construction of the reader: argc < 2 prints the usage and
\* returns 1; std::stoul may throw on an argument; the constructor may throw; every
\* exception is caught and main returns 1
Main ==
    /\ pc = "start"
    /\ caller' = "main"
    /\ \E argc \in 1..5, hw \in 0..MaxThreads, a2 \in 0..MaxThreads,
          a3 \in 0..MaxChunkKB, a4 \in BOOLEAN, parsed \in BOOLEAN :
          IF argc < 2 \/ (argc >= 3 /\ ~parsed)
          THEN /\ exitCode' = MainReturns(IF argc < 2 THEN "usage" ELSE "parse")
               /\ exitCause' = IF argc < 2 THEN "usage" ELSE "parse"
               /\ pc' = "exited"
               /\ threw' = (argc >= 2)
               /\ UNCHANGED <<configVars, buffer>>
          ELSE /\ Ctor(MainThreads(IF argc >= 3 THEN a2 ELSE hw),
                       MainChunk(IF argc >= 4 THEN a3 * KB ELSE DefaultChunk),
                       argc >= 5 /\ a4)
               /\ pc' = IF getFileSize = 0 THEN "exited" ELSE "constructed"
               /\ exitCode' = IF getFileSize = 0 THEN MainReturns("ctor") ELSE -1
               /\ exitCause' = IF getFileSize = 0 THEN "ctor" ELSE "none"
    /\ UNCHANGED <<envVars, released, divByZero, memsetVars, workerVars, verifyVars>>

\* the largest size_t that is not a multiple of block_size
TopChunk == IF (SizeMod - 1) % block_size # 0 THEN SizeMod - 1 ELSE SizeMod - 2

\* the chunk sizes a caller passes to the constructor: the small ones, and in direct
\* mode (where the constructor rounds) one at the top of size_t
ChunkSizes(odirect) == (1 .. MaxChunk) \cup (IF odirect THEN {TopChunk} ELSE {})

\* a caller constructs the engine itself
Construct ==
    /\ pc = "start"
    /\ caller' = "api"
    /\ \E threads \in 0..MaxThreads, odirect \in BOOLEAN :
          \E chunk_size \in ChunkSizes(odirect) : Ctor(threads, chunk_size, odirect)
    /\ pc' = IF getFileSize = 0 THEN "threw" ELSE "constructed"
    /\ UNCHANGED <<envVars, released, exitCode, exitCause, divByZero, memsetVars, workerVars,
                   verifyVars>>

\* ------------------------------------------------------------------ read()
\* the zero-fill loop's current_chunk_size for thread i
MemsetChunkSize(i) ==
    IF i = num_threads - 1
    THEN (file_size \div num_threads) + (file_size % num_threads)
    ELSE file_size \div num_threads

\* the zero-fill loop's current_memset_offset when thread i is created
RECURSIVE MemsetOffset(_)
MemsetOffset(i) ==
    IF i = 0 THEN 0 ELSE MemsetOffset(i - 1) + MemsetChunkSize(i - 1)

\* mutant: the remainder is dropped instead of given to the last worker
ReadChunkSizeNoRemainder(i) == file_size \div num_threads

\* the read loop's current_chunk_size for worker i
ReadChunkSize(i) ==
    IF i = num_threads - 1
    THEN (file_size \div num_threads) + (file_size % num_threads)
    ELSE file_size \div num_threads

\* the read loop's current_offset when worker i is created
RECURSIVE ReadOffset(_)
ReadOffset(i) ==
    IF i = 0 THEN 0 ELSE ReadOffset(i - 1) + ReadChunkSize(i - 1)

\* memory as malloc, posix_memalign and new char[] return it
Fresh(n) == [k \in 1..n |-> Uninit]

\* seq with val stored at the offsets (0-based) of offs that lie inside it
Fill(seq, offs, val) ==
    [k \in 1..Len(seq) |-> IF (k - 1) \in offs THEN val ELSE seq[k]]

ResetWorkers ==
    /\ wpc' = NoThreads /\ section_start' = NoThreads /\ section_size' = NoThreads
    /\ bytes_done' = NoThreads /\ current_offset' = NoThreads
    /\ temp_buffer' = NoThreads /\ fault' = NoThreads /\ wrote' = NoThreads
    /\ ioLog' = NoThreads /\ scratchRead' = NoThreads
    /\ copyLog' = NoThreads /\ iterations' = NoThreads /\ resources' = NoThreads

\* read() up to the creation of the zero-fill threads.  The allocation can fail and
\* throw (main catches it).  With num_threads = 0 the division
\* file_size / num_threads is undefined: the process is killed, or it goes on with
\* no thread to create.
ReadBegin ==
    /\ pc \in {"constructed", "idle"}
    /\ caller = "main" => pc = "constructed"
    /\ ResetWorkers
    /\ \E allocated \in BOOLEAN, killed \in BOOLEAN :
          IF ~allocated
          THEN /\ threw' = TRUE
               /\ pc' = IF caller = "main" THEN "caught" ELSE pc
               /\ exitCause' = IF caller = "main" THEN "read" ELSE exitCause
               /\ mpc' = NoThreads /\ memset_offset' = NoThreads
               /\ memset_size' = NoThreads /\ mwrote' = NoThreads
               /\ verifyResult' = "none" /\ verifyOpen' = FALSE /\ verifyGcount' = -1
               /\ UNCHANGED <<buffer, exitCode, divByZero>>
          ELSE /\ threw' = FALSE
               /\ verifyResult' = "none" /\ verifyOpen' = FALSE /\ verifyGcount' = -1
               /\ buffer' = Fresh(file_size)
               /\ divByZero' = (divByZero \/ num_threads = 0)
               /\ pc' = IF num_threads = 0 /\ killed THEN "sigfpe" ELSE "memset"
               /\ (num_threads # 0 => ~killed)
               /\ mpc' = [i \in Threads |-> "run"]
               /\ memset_offset' = [i \in Threads |-> MemsetOffset(i)]
               /\ memset_size' = [i \in Threads |-> MemsetChunkSize(i)]
               /\ mwrote' = [i \in Threads |-> {}]
               /\ UNCHANGED <<exitCode, exitCause>>
    /\ UNCHANGED <<envVars, released, caller, configVars>>

\* the body of zero-fill thread i: memset(buffer + offset, 0, size)
MemsetThread(i) ==
    /\ pc = "memset"
    /\ mpc[i] = "run"
    /\ buffer' = Fill(buffer, Range(memset_offset[i], memset_size[i]), 0)
    /\ mwrote' = [mwrote EXCEPT ![i] = Range(memset_offset[i], memset_size[i])]
    /\ mpc' = [mpc EXCEPT ![i] = "done"]
    /\ UNCHANGED <<envVars, released, caller, pc, exitCode, exitCause, configVars, threw, divByZero,
                   memset_offset, memset_size, workerVars, verifyVars>>

\* mutant: the zero-fill threads are not joined before the workers are created
MemsetJoinedNoWait == TRUE

\* the join loop over memset_threads has returned: every zero-fill thread finished
MemsetJoined == \A i \in Threads : mpc[i] = "done"

\* read() from the join of the zero-fill threads to the creation of the workers
ReadSpawn ==
    /\ pc = "memset"
    /\ MemsetJoined
    /\ pc' = "reading"
    /\ wpc' = [i \in Threads |-> "start"]
    /\ section_start' = [i \in Threads |-> ReadOffset(i)]
    /\ section_size' = [i \in Threads |-> ReadChunkSize(i)]
    /\ bytes_done' = [i \in Threads |-> 0]
    /\ current_offset' = [i \in Threads |-> 0]
    /\ temp_buffer' = [i \in Threads |-> << >>]
    /\ fault' = [i \in Threads |-> "none"]
    /\ wrote' = [i \in Threads |-> {}]
    /\ ioLog' = [i \in Threads |-> {}]
    /\ scratchRead' = [i \in Threads |-> {}]
    /\ copyLog' = [i \in Threads |-> {}]
    /\ iterations' = [i \in Threads |-> 0]
    /\ resources' = [i \in Threads |-> NoResources]
    /\ UNCHANGED <<envVars, released, caller, exitCode, exitCause, configVars, buffer, threw,
                   divByZero, memsetVars, verifyVars>>

\* --------------------------------------------------------------- storage
\* what a faithful read of len bytes at offset off returns: every requested byte
\* that exists before end-of-file
FaithfulCount(off, len) ==
    Min(len, IF off < Len(file) THEN Len(file) - off ELSE 0)

\* the values ::read can return: -1, or a count up to the faithful one.  A direct
\* (O_DIRECT) read whose offset or length is not a multiple of the block size fails.
ReadOutcomes(off, len, direct) ==
    IF direct /\ (off % block_size # 0 \/ len % block_size # 0)
    THEN {-1}
    ELSE -1 .. FaithfulCount(off, len)

\* whether the return value r of a read is a storage fault: fewer bytes than a
\* faithful read returns, or a failure of a request the storage accepts
Faulty(r, off, len, direct) ==
    /\ r < FaithfulCount(off, len)
    /\ ReadOutcomes(off, len, direct) # {-1}

\* dst after n bytes were stored at offset at, taken from src at offset from; a
\* source offset outside src yields an indeterminate byte
CopyInto(dst, at, src, from, n) ==
    [k \in 1..Len(dst) |->
        IF (k - 1) \in Range(at, n)
        THEN IF from + (k - 1 - at) < Len(src)
             THEN src[from + (k - 1 - at) + 1]
             ELSE Uninit
        ELSE dst[k]]

\* ------------------------------------------------------------- readChunk()
\* readChunk up to its loop: open the file, and in direct mode allocate the scratch
\* buffer; either can fail, and then the worker returns.  With an empty section the
\* loop is not entered: the worker frees, closes and returns at once.
WorkerOpen(i) ==
    /\ pc = "reading"
    /\ wpc[i] = "start"
    /\ \E opened \in BOOLEAN, allocated \in BOOLEAN :
          /\ (~opened \/ ~use_odirect) => allocated
          /\ (~opened \/ ~allocated) => MayFail
          /\ wpc' = [wpc EXCEPT ![i] =
                        IF opened /\ allocated /\ 0 < section_size[i] THEN "loop" ELSE "done"]
          /\ fault' = [fault EXCEPT ![i] = IF ~opened THEN "open"
                                           ELSE IF ~allocated THEN "alloc" ELSE "none"]
          /\ temp_buffer' = [temp_buffer EXCEPT ![i] =
                                IF opened /\ allocated /\ use_odirect /\ 0 < section_size[i]
                                THEN Fresh(read_chunk_size) ELSE << >>]
          /\ resources' = [resources EXCEPT ![i] =
                IF ~opened THEN @
                ELSE IF ~allocated THEN AllocFailed(OpenFd(@))
                ELSE LET held == IF use_odirect THEN AllocScratch(OpenFd(@))
                                 ELSE OpenFd(@)
                     IN IF 0 < section_size[i] THEN held ELSE LeaveLoop(held)]
    /\ bytes_done' = [bytes_done EXCEPT ![i] = 0]
    /\ current_offset' = [current_offset EXCEPT ![i] = section_start[i]]
    /\ UNCHANGED <<envVars, released, caller, pc, exitCode, exitCause, configVars, buffer,
                   threw, divByZero, memsetVars, section_start, section_size, wrote,
                   ioLog, scratchRead, copyLog, iterations, verifyVars>>

\* mutant: the offset is used as it is, not rounded down to a block boundary
AlignedOffsetUnrounded(cur) == cur

\* mutant: a break is ignored, the loop goes on while bytes remain
LoopEndsIgnoresBreak(break, bytes, size) == ~(bytes < size)

\* whether the loop is left after an iteration: by a break, or because the loop
\* condition (bytes < section_size) no longer holds.  What follows the loop (free,
\* close, the report) touches nothing shared and is part of that last step.
LoopEnds(break, bytes, size) == break \/ ~(bytes < size)

\* aligned_offset = (current_offset / block_size) * block_size
AlignedOffset(cur) == (cur \div block_size) * block_size

\* mutant: the copy starts at the beginning of the block that was read
OffsetInBlockZero(cur) == 0

\* offset_in_block = current_offset - aligned_offset
OffsetInBlock(cur) == cur - AlignedOffset(cur)

\* bytes_to_read of the direct path, after its rounding to the block size
AlignedBytesToRead(remaining_in_section, offset_in_block) ==
    RoundUp(Min(read_chunk_size, remaining_in_section + offset_in_block), block_size)

\* mutant: the copy is not limited to what remains of the section
BytesToCopyUnclamped(actually_read, offset_in_block, remaining_in_section) ==
    ToSizeT(actually_read - offset_in_block)

\* bytes_to_copy = min(size_t(actually_read) - offset_in_block, remaining_in_section)
BytesToCopy(actually_read, offset_in_block, remaining_in_section) ==
    Min(ToSizeT(actually_read - offset_in_block), remaining_in_section)

\* mutant: the offset is not moved on after a copy
AdvanceStays(offset, n) == offset

\* bytes_processed += n, current_offset += n
Advance(offset, n) == offset + n

\* bytes_completed, the count worker i reports when it ends
BytesCompleted(i) == bytes_done[i]

\* one more loop iteration begun
CountIteration(n) == Min(n + 1, IterCap)

\* one iteration of the direct path's loop.  A memcpy that reads past the end of the
\* scratch buffer is undefined: it copies whatever lies there, or the process is
\* killed.
AlignedIter(i) ==
    /\ pc = "reading"
    /\ wpc[i] = "loop"
    /\ use_odirect
    /\ bytes_done[i] < section_size[i]
    /\ LET cur == current_offset[i]
           aligned_offset == AlignedOffset(cur)
           offset_in_block == OffsetInBlock(cur)
           remaining == section_size[i] - bytes_done[i]
           bytes_to_read == AlignedBytesToRead(remaining, offset_in_block)
       IN \E seeked \in BOOLEAN, killed \in BOOLEAN :
            \E actually_read \in ReadOutcomes(aligned_offset, bytes_to_read, TRUE) :
              LET temp == CopyInto(temp_buffer[i], 0, file, aligned_offset,
                                   actually_read)
                  bytes_to_copy == BytesToCopy(actually_read, offset_in_block,
                                               remaining)
                  overrun == /\ actually_read >= 0
                             /\ bytes_to_copy > 0
                             /\ offset_in_block + bytes_to_copy > Len(temp_buffer[i])
                  ends == LoopEnds(actually_read < bytes_to_read,
                                   Advance(bytes_done[i], bytes_to_copy),
                                   section_size[i])
              IN /\ killed => (seeked /\ overrun)
                 /\ (~seeked) => (actually_read = -1 /\ MayFail)
                 /\ (seeked /\ Faulty(actually_read, aligned_offset, bytes_to_read, TRUE))
                       => MayFail
                 /\ IF killed
                    THEN /\ pc' = "sigsegv"
                         /\ UNCHANGED <<buffer, wpc, bytes_done, current_offset,
                                        temp_buffer, fault, wrote, ioLog, scratchRead,
                                        copyLog, iterations, resources>>
                    ELSE /\ pc' = pc
                         /\ iterations' = [iterations EXCEPT ![i] = CountIteration(@)]
                         /\ IF ~seeked
                            THEN /\ ioLog' = [ioLog EXCEPT ![i] =
                                         @ \cup {<<"seek", aligned_offset>>}]
                                 /\ fault' = [fault EXCEPT ![i] = "seek"]
                                 /\ wpc' = [wpc EXCEPT ![i] = "done"]
                                 /\ temp_buffer' = [temp_buffer EXCEPT ![i] = << >>]
                                 /\ resources' = [resources EXCEPT ![i] = LeaveLoop(@)]
                                 /\ UNCHANGED <<buffer, bytes_done, current_offset,
                                                wrote, scratchRead, copyLog>>
                            ELSE /\ ioLog' = [ioLog EXCEPT ![i] =
                                         @ \cup {<<"seek", aligned_offset>>,
                                                 <<"read", bytes_to_read>>}]
                                 /\ IF actually_read = -1
                                    THEN /\ fault' = [fault EXCEPT ![i] =
                                              IF Faulty(-1, aligned_offset,
                                                        bytes_to_read, TRUE)
                                              THEN "read" ELSE "einval"]
                                         /\ wpc' = [wpc EXCEPT ![i] = "done"]
                                         /\ temp_buffer' = [temp_buffer EXCEPT ![i] = << >>]
                                         /\ resources' = [resources EXCEPT ![i] =
                                                             LeaveLoop(@)]
                                         /\ UNCHANGED <<buffer, bytes_done, current_offset,
                                                        wrote, scratchRead, copyLog>>
                                    ELSE /\ temp_buffer' = [temp_buffer EXCEPT ![i] =
                                              IF ends THEN << >> ELSE temp]
                                         /\ resources' = [resources EXCEPT ![i] =
                                              IF ends THEN LeaveLoop(@) ELSE @]
                                         /\ buffer' = CopyInto(buffer, cur, temp,
                                                               offset_in_block,
                                                               bytes_to_copy)
                                         /\ wrote' = [wrote EXCEPT ![i] =
                                              @ \cup Range(cur, bytes_to_copy)]
                                         /\ scratchRead' = [scratchRead EXCEPT ![i] =
                                              @ \cup Range(offset_in_block, bytes_to_copy)]
                                         /\ copyLog' = [copyLog EXCEPT ![i] = @ \cup
                                              {[req |-> bytes_to_read,
                                                got |-> actually_read,
                                                oib |-> offset_in_block,
                                                rem |-> remaining,
                                                copied |-> bytes_to_copy]}]
                                         /\ bytes_done' = [bytes_done EXCEPT ![i] =
                                              Advance(@, bytes_to_copy)]
                                         /\ current_offset' = [current_offset EXCEPT ![i] =
                                              Advance(@, bytes_to_copy)]
                                         /\ fault' = [fault EXCEPT ![i] =
                                              IF actually_read
                                                   < FaithfulCount(aligned_offset,
                                                                   bytes_to_read)
                                              THEN "short" ELSE @]
                                         /\ wpc' = [wpc EXCEPT ![i] =
                                              IF ends THEN "done" ELSE @]
    /\ UNCHANGED <<envVars, released, caller, exitCode, exitCause, configVars, threw,
                   divByZero, memsetVars, section_start, section_size, verifyVars>>

\* bytes_to_read of the buffered path
BufferedBytesToRead(bytes_read, size) == Min(read_chunk_size, size - bytes_read)

\* one iteration of the buffered path's loop
BufferedIter(i) ==
    /\ pc = "reading"
    /\ wpc[i] = "loop"
    /\ ~use_odirect
    /\ bytes_done[i] < section_size[i]
    /\ LET cur == current_offset[i]
           bytes_to_read == BufferedBytesToRead(bytes_done[i], section_size[i])
       IN \E seeked \in BOOLEAN :
            \E actually_read \in ReadOutcomes(cur, bytes_to_read, FALSE) :
              LET ends == LoopEnds(\/ (actually_read < bytes_to_read
                                         /\ actually_read > 0)
                                   \/ actually_read = 0,
                                   Advance(bytes_done[i], actually_read),
                                   section_size[i])
              IN /\ iterations' = [iterations EXCEPT ![i] = CountIteration(@)]
                 /\ IF ~seeked
                    THEN /\ actually_read = -1
                         /\ MayFail
                         /\ ioLog' = [ioLog EXCEPT ![i] = @ \cup {<<"seek", cur>>}]
                         /\ fault' = [fault EXCEPT ![i] = "seek"]
                         /\ wpc' = [wpc EXCEPT ![i] = "done"]
                         /\ resources' = [resources EXCEPT ![i] = LeaveLoop(@)]
                         /\ UNCHANGED <<buffer, bytes_done, current_offset, wrote,
                                        copyLog>>
                    ELSE /\ Faulty(actually_read, cur, bytes_to_read, FALSE) => MayFail
                         /\ ioLog' = [ioLog EXCEPT ![i] =
                                 @ \cup {<<"seek", cur>>, <<"read", bytes_to_read>>}]
                         /\ IF actually_read = -1
                            THEN /\ fault' = [fault EXCEPT ![i] = "read"]
                                 /\ wpc' = [wpc EXCEPT ![i] = "done"]
                                 /\ resources' = [resources EXCEPT ![i] = LeaveLoop(@)]
                                 /\ UNCHANGED <<buffer, bytes_done, current_offset, wrote,
                                                copyLog>>
                            ELSE /\ buffer' = CopyInto(buffer, cur, file, cur,
                                                       actually_read)
                                 /\ wrote' = [wrote EXCEPT ![i] =
                                      @ \cup Range(cur, actually_read)]
                                 /\ copyLog' = [copyLog EXCEPT ![i] = @ \cup
                                      {[req |-> bytes_to_read,
                                        got |-> actually_read,
                                        oib |-> 0,
                                        rem |-> section_size[i] - bytes_done[i],
                                        copied |-> actually_read]}]
                                 /\ bytes_done' = [bytes_done EXCEPT ![i] =
                                      Advance(@, actually_read)]
                                 /\ current_offset' = [current_offset EXCEPT ![i] =
                                      Advance(@, actually_read)]
                                 /\ fault' = [fault EXCEPT ![i] =
                                      IF actually_read < FaithfulCount(cur, bytes_to_read)
                                      THEN "short" ELSE @]
                                 /\ resources' = [resources EXCEPT ![i] =
                                      IF ends THEN LeaveLoop(@) ELSE @]
                                 /\ wpc' = [wpc EXCEPT ![i] = IF ends THEN "done" ELSE @]
    /\ UNCHANGED <<envVars, released, caller, pc, exitCode, exitCause, configVars, threw,
                   divByZero, memsetVars, section_start, section_size, temp_buffer,
                   scratchRead, verifyVars>>

\* read() from the join of the workers to its return
ReadEnd ==
    /\ pc = "reading"
    /\ \A i \in Threads : wpc[i] = "done"
    /\ pc' = "idle"
    /\ UNCHANGED <<envVars, released, caller, exitCode, exitCause, configVars, buffer, threw,
                   divByZero, memsetVars, workerVars, verifyVars>>

\* ---------------------------------------------------------------- verify()
\* what memcmp(a, b, n) == 0 can evaluate to, comparing byte k onwards: two
\* initialized bytes that differ decide it; an indeterminate byte may or may not
\* equal the other one
RECURSIVE MemcmpEqual(_, _, _, _)
MemcmpEqual(a, b, k, n) ==
    IF k > n THEN {TRUE}
    ELSE IF a[k] # Uninit /\ b[k] # Uninit
         THEN IF a[k] # b[k] THEN {FALSE} ELSE MemcmpEqual(a, b, k + 1, n)
         ELSE {FALSE} \cup MemcmpEqual(a, b, k + 1, n)

\* mutant: the comparison is made whatever the sequential read returned
VerifyComparesAlways(success) == TRUE

\* `success && memcmp(...)`: the buffers are compared only after a complete read
VerifyCompares(success) == success

\* verify(): open the file, allocate verify_buffer (new may throw), read file_size
\* bytes sequentially into it and compare it with `buffer`.  memcmp through a null
\* `buffer` reads address 0: the process is killed.  verify() changes nothing of
\* the engine, so a second call in the same state has the outcomes of the first: one
\* call is followed between two read() calls.
Verify ==
    /\ pc \in {"constructed", "idle"}
    /\ caller = "main" => pc = "idle"
    /\ verifyResult = "none"
    /\ \E opened \in BOOLEAN, allocated \in BOOLEAN, gcount \in 0..file_size,
          equal \in BOOLEAN :
          LET verify_buffer == CopyInto(Fresh(file_size), 0, file, 0, gcount)
              success == (gcount = file_size)
              returns == IF caller = "main" THEN "verified" ELSE pc
          IN /\ verifyOpen' = opened
             /\ IF ~opened
                THEN /\ allocated /\ gcount = 0 /\ ~equal
                     /\ verifyGcount' = -1
                     /\ verifyResult' = "false"
                     /\ pc' = returns
                     /\ UNCHANGED <<threw, exitCode, exitCause>>
                ELSE IF ~allocated
                THEN /\ gcount = 0 /\ ~equal
                     /\ verifyGcount' = -1
                     /\ verifyResult' = "threw"
                     /\ threw' = TRUE
                     /\ pc' = IF caller = "main" THEN "caught" ELSE pc
                     /\ exitCause' = IF caller = "main" THEN "verify" ELSE exitCause
                     /\ UNCHANGED exitCode
                ELSE /\ verifyGcount' = gcount
                     /\ UNCHANGED <<threw, exitCode, exitCause>>
                     /\ IF ~VerifyCompares(success)
                        THEN /\ ~equal
                             /\ verifyResult' = "false"
                             /\ pc' = returns
                        ELSE IF buffer = NullPtr
                        THEN /\ ~equal
                             /\ verifyResult' = "killed"
                             /\ pc' = "sigsegv"
                        ELSE /\ equal \in MemcmpEqual(buffer, verify_buffer, 1, file_size)
                             /\ verifyResult' = IF success /\ equal THEN "true" ELSE "false"
                             /\ pc' = returns
    /\ UNCHANGED <<envVars, released, caller, configVars, buffer, divByZero, memsetVars,
                   workerVars>>

\* the deallocator ~ParallelFileReader() applies to `buffer`
Deallocator ==
    IF buffer = NullPtr THEN "none" ELSE IF use_odirect THEN "free" ELSE "delete[]"

\* the allocator read() obtains `buffer` from
Allocator == IF use_odirect THEN "posix_memalign" ELSE "new[]"

\* ~ParallelFileReader()
Destructor ==
    /\ released' = Deallocator
    /\ buffer' = NullPtr

\* main()'s catch handler, for an exception thrown after the reader was constructed:
\* the reader is destroyed during unwinding, then main returns
MainCatch ==
    /\ pc = "caught"
    /\ Destructor
    /\ pc' = "exited"
    /\ exitCode' = MainReturns(exitCause)
    /\ UNCHANGED <<envVars, caller, exitCause, configVars, threw, divByZero,
                   memsetVars, workerVars, verifyVars>>

\* main() after verify(): the dump of the first bytes, the end of the try block
\* (the reader is destroyed), then return 0
MainExit ==
    /\ pc = "verified"
    /\ Destructor
    /\ pc' = "exited"
    /\ exitCode' = MainReturns("done")
    /\ exitCause' = "done"
    /\ UNCHANGED <<envVars, caller, configVars, threw, divByZero,
                   memsetVars, workerVars, verifyVars>>

\* ~ParallelFileReader() when a caller destroys the engine; the record of its last
\* read() and verify() goes with it
Destroy ==
    /\ caller = "api"
    /\ pc \in {"constructed", "idle"}
    /\ Destructor
    /\ pc' = "destroyed"
    /\ ResetWorkers
    /\ mpc' = NoThreads /\ memset_offset' = NoThreads /\ memset_size' = NoThreads
    /\ mwrote' = NoThreads
    /\ verifyResult' = "none" /\ verifyOpen' = FALSE /\ verifyGcount' = -1
    /\ UNCHANGED <<envVars, caller, exitCode, exitCause, configVars, threw, divByZero>>

Next ==
    \/ Main
    \/ Construct
    \/ ReadBegin
    \/ \E i \in Threads : MemsetThread(i)
    \/ ReadSpawn
    \/ \E i \in Threads : WorkerOpen(i)
    \/ \E i \in Threads : AlignedIter(i)
    \/ \E i \in Threads : BufferedIter(i)
    \/ ReadEnd
    \/ Verify
    \/ MainCatch
    \/ MainExit
    \/ Destroy

Spec == Init /\ [][Next]_vars

\* ================================================================== claims
\* the workers of the current read() call exist (read() reached their creation)
WorkersCreated == pc \in {"reading", "idle", "verified"} /\ DOMAIN section_start = Threads

RECURSIVE SumSizes(_)
SumSizes(n) == IF n = 0 THEN 0 ELSE SumSizes(n - 1) + section_size[n - 1]

\* C1: for file_size >= 1 and num_threads >= 1 the (start, length) pairs handed to
\* the workers start at 0, are contiguous (no gap, no overlap), their lengths sum to
\* file_size, every one but the last has length file_size / num_threads and the
\* last has that plus file_size mod num_threads.
C1_PartitionCoverage ==
    (WorkersCreated /\ file_size >= 1 /\ num_threads >= 1) =>
        /\ section_start[0] = 0
        /\ \A i \in Threads \ {num_threads - 1} :
              /\ section_start[i + 1] = section_start[i] + section_size[i]
              /\ section_size[i] = file_size \div num_threads
        /\ section_size[num_threads - 1] =
              (file_size \div num_threads) + (file_size % num_threads)
        /\ section_start[num_threads - 1] + section_size[num_threads - 1] = file_size
        /\ SumSizes(num_threads) = file_size
        /\ \A i, j \in Threads :
              i # j => Range(section_start[i], section_size[i])
                         \cap Range(section_start[j], section_size[j]) = {}

\* C1 witness: more workers than bytes, with a remainder for the last one
C1_Witness ==
    /\ WorkersCreated
    /\ num_threads > file_size
    /\ num_threads >= 2
    /\ section_size[0] = 0
    /\ section_size[num_threads - 1] = file_size

\* no worker met a storage fault in the current read() call
FaithfulRead == \A i \in DOMAIN fault : fault[i] \notin {"open", "alloc", "seek", "read", "short"}

\* C2: with a faithful storage, num_threads >= 1 and either mode, after read()
\* returns the destination buffer equals the file byte for byte, and a verify()
\* whose own read is faithful returns true.
C2_EndToEnd ==
    (pc \in {"idle", "verified"} /\ ~threw /\ num_threads >= 1 /\ FaithfulRead) =>
        /\ buffer = file
        /\ (verifyOpen /\ verifyGcount = file_size) => verifyResult = "true"

\* C2 witness: a direct-mode read with a partition that starts off a block
\* boundary, of a file with a non-zero byte, verified
C2_Witness ==
    /\ pc = "idle"
    /\ use_odirect
    /\ num_threads >= 2
    /\ \E i \in DOMAIN section_start :
          section_start[i] % block_size # 0 /\ section_size[i] >= 2
    /\ \E k \in DOMAIN file : file[k] # 0
    /\ FaithfulRead
    /\ verifyResult = "true"

\* C3: in direct mode every offset passed to lseek and every length passed to
\* ::read is a multiple of block_size, whatever the alignment of the section.
C3_AlignedRequests ==
    use_odirect =>
        \A i \in DOMAIN ioLog : \A e \in ioLog[i] : e[2] % block_size = 0

\* C3 witness: a section that neither starts nor ends on a block boundary has
\* issued a seek and a read
C3_Witness ==
    /\ use_odirect
    /\ \E i \in DOMAIN ioLog :
          /\ section_start[i] % block_size # 0
          /\ (section_start[i] + section_size[i]) % block_size # 0
          /\ \E e \in ioLog[i] : e[1] = "read"
          /\ \E e \in ioLog[i] : e[1] = "seek"

\* the offsets some worker of the current read() call wrote
WrittenByWorkers == UNION {wrote[i] : i \in DOMAIN wrote}

\* C4: after the zero-fill phase and before any worker has started, every byte of
\* the destination buffer is zero; during and after the read phase every byte that
\* no worker wrote is still zero.
C4_ZeroFill ==
    (pc \in {"reading", "idle", "verified"} /\ ~threw) =>
        /\ Len(buffer) = file_size
        /\ \A k \in 1..file_size : (k - 1) \notin WrittenByWorkers => buffer[k] = 0

\* C5: a worker writes the destination buffer only inside its own partition, so no
\* offset is written by two workers; the same holds for the zero-fill threads.
C5_DisjointWrites ==
    /\ \A i \in DOMAIN wrote :
          wrote[i] \subseteq Range(section_start[i], section_size[i])
    /\ \A i, j \in DOMAIN wrote : i # j => wrote[i] \cap wrote[j] = {}
    /\ \A i \in DOMAIN mwrote :
          mwrote[i] \subseteq Range(memset_offset[i], memset_size[i])
    /\ \A i, j \in DOMAIN mwrote : i # j => mwrote[i] \cap mwrote[j] = {}

\* C5 witness: a worker is between two iterations of its loop, it has written and
\* so has another worker
C5_Witness ==
    /\ pc = "reading"
    /\ use_odirect
    /\ \E i, j \in DOMAIN wrote :
          /\ i # j
          /\ wpc[i] = "loop" /\ wrote[i] # {}
          /\ wrote[j] # {}

\* a worker whose I/O met no failure has copied its whole partition
CopiedWholePartition(i) ==
    /\ wrote[i] = Range(section_start[i], section_size[i])
    /\ \A k \in wrote[i] : buffer[k + 1] = file[k + 1]

\* C6: an I/O error of one worker stops only that worker: while the workers run
\* read() neither throws nor ends the process, it returns only after every worker
\* has finished, and every worker whose own I/O was faithful has then copied its
\* whole partition.
C6_WorkerErrorIsLocal ==
    /\ [](((pc \in {"idle", "verified"} /\ ~threw /\ DOMAIN fault = Threads) =>
             \A i \in Threads : fault[i] = "none" => CopiedWholePartition(i)))
    /\ [][(pc = "reading" /\ read_chunk_size >= 1) =>
             /\ pc' \in {"reading", "idle"}
             /\ threw' = threw /\ exitCode' = exitCode
             /\ (pc' = "idle" => \A i \in Threads : wpc[i] = "done")]_vars

\* C6 witness: read() has returned, one worker failed to open the file and copied
\* nothing, another one copied its non-empty partition
C6_Witness ==
    /\ pc = "idle" /\ ~threw
    /\ \E i, j \in DOMAIN fault :
          /\ fault[i] = "open" /\ section_size[i] > 0 /\ wrote[i] = {}
          /\ fault[j] = "none" /\ section_size[j] > 0 /\ CopiedWholePartition(j)

\* the constructor has returned an engine
Constructed == pc \notin {"start", "threw"} /\ exitCause \notin {"usage", "parse", "ctor"}

\* C7: for a file that does not exist or has size 0 the constructor throws before
\* any buffer is allocated or thread created, and main then returns 1; for every
\* other file the constructed engine has file_size >= 1, and file_size never
\* changes afterwards.
C7_FailFast ==
    /\ []((pc # "start" /\ (~fileExists \/ Len(file) = 0)) =>
             /\ ~Constructed
             /\ buffer = NullPtr
             /\ mpc = NoThreads /\ wpc = NoThreads
             /\ (caller = "main" => pc = "exited" /\ exitCode = 1))
    /\ [](Constructed => file_size >= 1 /\ file_size = Len(file))
    /\ [][Constructed => file_size' = file_size]_vars

\* C7 witness: main ran the constructor on a missing file and returned 1
C7_Witness ==
    /\ caller = "main"
    /\ ~fileExists
    /\ read_chunk_size >= 1
    /\ threw
    /\ pc = "exited" /\ exitCode = 1
    /\ buffer = NullPtr

\* C8: num_threads = 0 never reaches the partitioning: read() never divides
\* file_size by zero.
C8_NoDivisionByZero ==
    /\ ~divByZero
    /\ pc \in {"memset", "reading"} => num_threads >= 1

\* C9: when file_size < block_size or file_size < num_threads, every write into the
\* destination buffer lies in [0, file_size) and every read from a scratch buffer
\* lies in [0, read_chunk_size), in both modes.
C9_InBounds ==
    (file_size < block_size \/ file_size < num_threads) =>
        /\ \A i \in DOMAIN wrote : wrote[i] \subseteq 0 .. (file_size - 1)
        /\ \A i \in DOMAIN mwrote : mwrote[i] \subseteq 0 .. (file_size - 1)
        /\ \A i \in DOMAIN scratchRead :
              scratchRead[i] \subseteq 0 .. (read_chunk_size - 1)

\* C10: verify() returns true exactly when its sequential read obtained all
\* file_size bytes and they equal the destination buffer (a byte that was never
\* written has no value to differ by); a sequential read of fewer bytes, or a file
\* that cannot be opened, makes it return false; and verify() never changes the
\* destination buffer.
C10_VerifyExact ==
    /\ [](/\ (verifyResult = "true" /\ pc \notin {"destroyed", "exited"}) =>
               /\ verifyOpen /\ verifyGcount = file_size
               /\ Len(buffer) = file_size
               /\ \A k \in 1..file_size : buffer[k] \in {file[k], Uninit}
          /\ (verifyResult \in {"false", "killed"} /\ pc \notin {"destroyed", "exited"}
                 /\ verifyOpen /\ verifyGcount = file_size) => buffer # file
          /\ (verifyResult # "none" /\ (~verifyOpen \/ verifyGcount \in 0 .. (file_size - 1)))
                => verifyResult = "false")
    /\ [][Verify => buffer' = buffer]_vars

\* C10 witness: one engine, a read() that met a short read and left bytes unread;
\* verify() read the whole file and returned false
C10_Witness ==
    /\ pc = "idle"
    /\ verifyResult = "false"
    /\ verifyOpen /\ verifyGcount = file_size
    /\ buffer # file
    /\ \E i \in DOMAIN fault : fault[i] = "short"

\* C10 witness of the other outcomes: verify() met a short read of its own on a
\* buffer that equals the file
C10_WitnessShort ==
    /\ pc = "idle"
    /\ buffer = file
    /\ verifyOpen /\ verifyGcount \in 1 .. (file_size - 1)
    /\ verifyResult = "false"

\* C11 as stated: main returns 1 exactly when the filename is omitted or an
\* exception from the construction or from read() reaches it, and 0 otherwise.
C11_ExitCodeAsStated ==
    (caller = "main" /\ pc = "exited") =>
        /\ exitCode \in {0, 1}
        /\ exitCode = 1 <=> exitCause \in {"usage", "ctor", "read"}

\* C11: whenever main returns, it returns 1 exactly when the filename is omitted or
\* an exception reaches its catch handler (from the parsing of an argument, the
\* construction, read() or verify()), and 0 otherwise; the I/O errors of the workers
\* and a verify() that returned false leave the return value at 0.
C11_ExitCode ==
    (caller = "main" /\ pc = "exited") =>
        /\ exitCode \in {0, 1}
        /\ exitCode = 1 <=> (exitCause = "usage" \/ threw)
        /\ exitCode = 1 <=> exitCause \in {"usage", "parse", "ctor", "read", "verify"}
        /\ exitCode = 0 <=> (exitCause = "done" /\ verifyResult \in {"true", "false"})

\* C11 witness: main returned 0 although a worker met a read error and verify()
\* returned false
C11_Witness ==
    /\ caller = "main" /\ pc = "exited"
    /\ exitCode = 0
    /\ verifyResult = "false"
    /\ \E i \in DOMAIN fault : fault[i] = "read"

\* C12: in direct mode every iteration copies min(actually_read - offset_in_block,
\* remaining_in_section) bytes, never more than its read returned past
\* offset_in_block; when the read returned fewer than offset_in_block bytes nothing
\* is copied and the counter does not advance.
C12_CopiesOnlyWhatWasRead ==
    (use_odirect /\ read_chunk_size >= 1) =>
        \A i \in DOMAIN copyLog : \A e \in copyLog[i] :
            /\ e.got >= e.oib => e.copied = Min(e.got - e.oib, e.rem)
            /\ e.got < e.oib => e.copied = 0
            /\ e.copied <= (IF e.got >= e.oib THEN e.got - e.oib ELSE 0)

\* worker i met a failed seek or read, or a read that returned fewer bytes than it
\* asked for
MetFailure(i) ==
    \/ fault[i] \in {"seek", "read"}
    \/ \E e \in copyLog[i] : e.got < e.req

\* C13: in both modes a worker whose seek or read failed, or whose read returned
\* fewer bytes than requested (0 or more), has left its loop; from then on, in this
\* read() call, it issues no seek and no read, begins no iteration and writes
\* nothing, and the bytes it had copied stay in the destination buffer.
C13_NoRetry ==
    /\ [](\A i \in DOMAIN wpc : MetFailure(i) => wpc[i] = "done")
    /\ [][pc = "reading" =>
            \A i \in DOMAIN wpc :
               (wpc[i] = "done" /\ i \in DOMAIN wpc') =>
                   /\ wpc'[i] = "done"
                   /\ ioLog'[i] = ioLog[i]
                   /\ iterations'[i] = iterations[i]
                   /\ wrote'[i] = wrote[i]
                   /\ \A k \in wrote[i] : buffer'[k + 1] = buffer[k + 1]]_vars

\* C13 witness: read() has returned; a worker copied one chunk, its second read
\* failed, and it stopped there with the first chunk kept
C13_Witness ==
    /\ pc = "idle"
    /\ \E i \in DOMAIN fault :
          /\ fault[i] = "read"
          /\ iterations[i] = 2
          /\ wrote[i] # {}
          /\ bytes_done[i] < section_size[i]
          /\ \A k \in wrote[i] : buffer[k + 1] = file[k + 1]

\* C14: inside one read() no worker exists before every zero-fill thread has
\* finished, read() has not returned (and verify() does not start) before every
\* worker has finished, and the zero-fill threads have the partitions of the workers.
C14_PhaseOrdering ==
    /\ []((DOMAIN wpc # {}) =>
             /\ DOMAIN mpc = DOMAIN wpc
             /\ \A j \in DOMAIN mpc : mpc[j] = "done"
             /\ memset_offset = section_start
             /\ memset_size = section_size)
    /\ []((pc \in {"idle", "verified"}) => \A i \in DOMAIN wpc : wpc[i] = "done")
    /\ [][Verify => (pc \notin {"memset", "reading"}
                       /\ \A i \in DOMAIN wpc : wpc[i] = "done")]_vars

\* C14 witness: with an uneven partition, a worker has copied bytes while another
\* one has not started
C14_Witness ==
    /\ pc = "reading"
    /\ num_threads >= 2
    /\ file_size % num_threads # 0
    /\ \E i, j \in DOMAIN wpc : wrote[i] # {} /\ wpc[j] = "start"
    /\ \A k \in 1 .. file_size : (k - 1) \notin WrittenByWorkers => buffer[k] = 0

\* C15: in both modes the bytes a worker has written are a contiguous prefix of its
\* partition: current_offset = section_start + the bytes copied so far, the counter
\* never exceeds section_size, and the bytes_completed it reports is the number of
\* bytes it copied into the destination buffer.
C15_ContiguousPrefix ==
    \A i \in DOMAIN wpc :
        wpc[i] # "start" =>
            /\ current_offset[i] = section_start[i] + bytes_done[i]
            /\ bytes_done[i] <= section_size[i]
            /\ wrote[i] = Range(section_start[i], bytes_done[i])
            /\ BytesCompleted(i) = Cardinality(wrote[i])

\* C15 witness: a direct-mode worker is between two iterations, part of its
\* partition copied
C15_Witness ==
    /\ pc = "reading"
    /\ use_odirect
    /\ \E i \in DOMAIN wpc :
          /\ wpc[i] = "loop"
          /\ iterations[i] >= 1
          /\ 0 < bytes_done[i] /\ bytes_done[i] < section_size[i]
          /\ wrote[i] = Range(section_start[i], bytes_done[i])

\* read() obtains a new destination buffer in this step
ReadAllocates == pc \in {"constructed", "idle"} /\ pc' \in {"memset", "sigfpe"}

\* the engine is destroyed in this step
Destroyed == pc \notin {"start", "destroyed", "exited"} /\ pc' \in {"destroyed", "exited"}

\* C16: every destination buffer read() allocated is released exactly once, by the
\* deallocator that matches its allocation: read() never replaces the pointer to a
\* buffer that was not released, and the destructor releases the buffer the engine
\* holds, with free after posix_memalign and delete[] after new[].
C16_ReleasedExactlyOnce ==
    /\ [][(ReadAllocates /\ num_threads >= 1) => buffer = NullPtr]_vars
    /\ [][(Destroyed /\ Constructed /\ buffer # NullPtr) =>
             /\ released = "none"
             /\ released' = (IF Allocator = "posix_memalign" THEN "free" ELSE "delete[]")
             /\ buffer' = NullPtr]_vars
    /\ [](released # "none" => pc \in {"destroyed", "exited"})

\* C17: in direct mode read_chunk_size is a multiple of block_size after the
\* construction, for every chunk_size >= 1 passed in, and every read the direct path
\* issues has a length of at least block_size and at most read_chunk_size, the size
\* of the scratch buffer it reads into.
C17_ChunkRounding ==
    (use_odirect /\ Constructed) =>
        /\ read_chunk_size % block_size = 0
        /\ \A i \in DOMAIN ioLog : \A e \in ioLog[i] :
              e[1] = "read" => (block_size <= e[2] /\ e[2] <= read_chunk_size)
        /\ \A i \in DOMAIN wpc :
              wpc[i] = "loop" => Len(temp_buffer[i]) = read_chunk_size

\* C18: with read_chunk_size >= 1 every iteration of either loop copies at least one
\* new byte or leaves the loop, a worker begins at most section_size iterations, and
\* the read phase ends with read() returning, whatever the reads return.
C18_Terminates ==
    /\ [](read_chunk_size >= 1 =>
             \A i \in DOMAIN wpc :
                /\ iterations[i] <= section_size[i]
                /\ \A e \in copyLog[i] : e.copied >= 1 \/ e.got < e.req)
    /\ [][(pc = "reading" /\ read_chunk_size >= 1) => pc' \in {"reading", "idle"}]_vars

\* C19: a worker opens at most one handle and allocates at most one scratch buffer
\* (none in buffered mode), reads into the scratch buffer it allocated, and when it
\* has ended, on whatever path, it has closed the handle it opened exactly once and
\* freed the scratch buffer it allocated exactly once; while it runs it has
\* released neither.
C19_WorkerCleanup ==
    \A i \in DOMAIN resources :
        LET r == resources[i]
        IN /\ r.opens <= 1 /\ r.allocs <= 1
           /\ r.closes <= r.opens /\ r.frees <= r.allocs
           /\ ~use_odirect => r.allocs = 0
           /\ r.allocs = 1 => r.opens = 1
           /\ wpc[i] = "start" => r = NoResources
           /\ wpc[i] = "loop" =>
                 /\ r.opens = 1 /\ r.closes = 0 /\ r.frees = 0
                 /\ use_odirect => (r.allocs = 1 /\ Len(temp_buffer[i]) = read_chunk_size)
           /\ wpc[i] = "done" =>
                 /\ r.closes = r.opens /\ r.frees = r.allocs
                 /\ temp_buffer[i] = << >>
                 /\ fault[i] = "open" <=> r.opens = 0
                 /\ fault[i] = "alloc" => (r.opens = 1 /\ r.allocs = 0)

\* C19 witness: read() has returned in direct mode; one worker failed to allocate
\* its scratch buffer and closed its handle, another one ran to the end of its
\* partition and released both
C19_Witness ==
    /\ pc = "idle"
    /\ use_odirect
    /\ \E i, j \in DOMAIN resources :
          /\ fault[i] = "alloc"
          /\ resources[i] = [opens |-> 1, closes |-> 1, allocs |-> 0, frees |-> 0]
          /\ fault[j] = "none" /\ bytes_done[j] = section_size[j] /\ section_size[j] > 0
          /\ resources[j] = [opens |-> 1, closes |-> 1, allocs |-> 1, frees |-> 1]

\* C20: whatever the order of the calls, a verify() that finds `buffer` null (no
\* read() has allocated it) returns false; it does not read through the null pointer.
C20_VerifyBeforeRead ==
    /\ [][(Verify /\ buffer = NullPtr /\ num_threads >= 1) =>
             verifyResult' \in {"false", "threw"}]_vars
    /\ [](num_threads >= 1 => verifyResult # "killed")
====
